---- MODULE Spec2Model ----
(***************************************************************************)
(* Model of src/app.py: the join-and-classify pipeline (process_files) and *)
(* the per-theme map rendering (create_map) driven by main.                *)
(*                                                                         *)
(* Text is a sequence of one-character strings, so that str.replace and    *)
(* the float conversion are computed character by character.  A float is   *)
(* an integer number of tenths (45.2 is 452): every threshold of the       *)
(* source has at most one decimal, and the input cells of the model have   *)
(* at most one decimal digit.                                              *)
(***************************************************************************)
EXTENDS Integers, Sequences, FiniteSets, TLC

VARIABLES pc, shapefile, population_file, land_file, outcome, gdf, done, files

vars == <<pc, shapefile, population_file, land_file, outcome, gdf, done, files>>

(***************************************************************************)
(* Text and numbers                                                        *)
(***************************************************************************)
Digits == {"0", "1", "2", "3", "4", "5", "6", "7", "8", "9"}

DigitVal(c) ==
  CASE c = "0" -> 0 [] c = "1" -> 1 [] c = "2" -> 2 [] c = "3" -> 3
    [] c = "4" -> 4 [] c = "5" -> 5 [] c = "6" -> 6 [] c = "7" -> 7
    [] c = "8" -> 8 [] c = "9" -> 9

RECURSIVE IntOf(_)
IntOf(s) ==
  IF s = <<>> THEN 0
  ELSE 10 * IntOf(SubSeq(s, 1, Len(s) - 1)) + DigitVal(s[Len(s)])

\* The unsigned part of a decimal literal: digits, at most one '.', at least
\* one digit, at most one digit after the '.'.
IsUnsigned(b) ==
  LET dots == {i \in 1..Len(b) : b[i] = "."}
  IN  /\ \A i \in 1..Len(b) : b[i] \in Digits \cup {"."}
      /\ Cardinality(dots) <= 1
      /\ \E i \in 1..Len(b) : b[i] \in Digits
      /\ \A d \in dots : Len(b) - d <= 1

\* float(s) succeeds
IsFloat(s) ==
  IF s # <<>> /\ s[1] = "-" THEN IsUnsigned(Tail(s)) ELSE IsUnsigned(s)

UnsignedTenths(b) ==
  LET dots == {i \in 1..Len(b) : b[i] = "."}
      d    == IF dots = {} THEN Len(b) + 1 ELSE CHOOSE i \in dots : TRUE
  IN  10 * IntOf(SubSeq(b, 1, d - 1)) + IntOf(SubSeq(b, d + 1, Len(b)))

\* float(s), in tenths, for a text with IsFloat(s)
ParseFloat(s) ==
  IF s # <<>> /\ s[1] = "-" THEN 0 - UnsignedTenths(Tail(s)) ELSE UnsignedTenths(s)

\* str.replace(old, new) for a one-character old and a new of any length
RECURSIVE Replace(_, _, _)
Replace(s, old, new) ==
  IF s = <<>> THEN <<>>
  ELSE (IF Head(s) = old THEN new ELSE <<Head(s)>>) \o Replace(Tail(s), old, new)

(***************************************************************************)
(* Table cells: a missing value, a number, or a text                       *)
(***************************************************************************)
Nan    == [k |-> "nan", v |-> 0, s |-> <<>>]
Num(n) == [k |-> "num", v |-> n, s |-> <<>>]
Str(s) == [k |-> "str", v |-> 0, s |-> s]

\* pd.read_csv: an empty field is a missing value; a column whose fields are
\* all numeric or empty is a numeric column, any other column (and every
\* column of a file with no data row) is an object column of texts.
ColumnDtype(file, c) ==
  IF /\ file.rows # <<>>
     /\ \A i \in 1..Len(file.rows) :
          file.rows[i][c] = <<>> \/ IsFloat(file.rows[i][c])
  THEN "float64" ELSE "object"

ReadCell(dtype, raw) ==
  IF raw = <<>> THEN Nan
  ELSE IF dtype = "float64" THEN Num(ParseFloat(raw)) ELSE Str(raw)

read_csv(file) ==
  CHOOSE df \in
    {[cols  |-> file.header,
      dtype |-> dtype,
      rows  |-> [i \in 1..Len(file.rows) |->
                  [c \in file.header |-> ReadCell(dtype[c], file.rows[i][c])]]]
       : dtype \in {[c \in file.header |-> ColumnDtype(file, c)]}} : TRUE

\* gpd.read_file: one feature per row, its attributes are texts
read_file(shp) ==
  [cols  |-> shp.header,
   dtype |-> [c \in shp.header |-> IF c = "geometry" THEN "geometry" ELSE "object"],
   rows  |-> [i \in 1..Len(shp.rows) |->
               [c \in shp.header |->
                  IF c = "geometry" THEN Num(shp.rows[i][c]) ELSE Str(shp.rows[i][c])]]]

(***************************************************************************)
(* Column names of process_files                                           *)
(***************************************************************************)
\* the two dots stand for the two non-ASCII artefact characters of the source
POP_KEY     == "State or..Union Territory"
LAND_KEY    == "States/UTs"
URBAN_COL   == "Urban pop. In %"
NET_COL     == "Net area sown"
FOREST_COL  == "Forests"
DENSITY_COL == "Density"

IndicatorColumns ==
  <<"Urban Planning", "Infrastructure Development",
    "Environmental Conservation", "Socio-Economics Analysis">>

(***************************************************************************)
(* DataFrame.merge(right, left_on, right_on, how='left')                   *)
(***************************************************************************)
\* the right rows whose key equals the left row's, in the right table's order
Matching(l, right, left_on, right_on) ==
  SelectSeq(right.rows, LAMBDA r : r[right_on] = l[left_on])

\* the rows of the result for one left row: one per matching right row, or a
\* single row of missing values
JoinedRows(l, right, left_on, right_on) ==
  CHOOSE rows \in
    {IF m = <<>> THEN << l @@ [c \in right.cols |-> Nan] >>
     ELSE [i \in 1..Len(m) |-> l @@ m[i]]
       : m \in {Matching(l, right, left_on, right_on)}} : TRUE

RECURSIVE MergeRows(_, _, _, _)
MergeRows(lrows, right, left_on, right_on) ==
  IF lrows = <<>> THEN <<>>
  ELSE JoinedRows(Head(lrows), right, left_on, right_on)
         \o MergeRows(Tail(lrows), right, left_on, right_on)

\* raises KeyError when a key column is absent
merge(left, right, left_on, right_on) ==
  IF left_on \notin left.cols \/ right_on \notin right.cols
  THEN [err |-> "KeyError", df |-> left]
  ELSE [err |-> "",
        df  |-> [cols  |-> left.cols \cup right.cols,
                 dtype |-> left.dtype @@ right.dtype,
                 rows  |-> MergeRows(left.rows, right, left_on, right_on)]]

(***************************************************************************)
(* Series operations; a Series is [err, dtype, vals]                       *)
(***************************************************************************)
Raise(e) == [err |-> e, dtype |-> "object", vals |-> <<>>]

\* variant of GetColumn: an absent column reads as a column of missing values
GetColumnOrMissing(df, c) ==
  IF c \notin df.cols
  THEN [err |-> "", dtype |-> "float64", vals |-> [i \in 1..Len(df.rows) |-> Nan]]
  ELSE [err |-> "", dtype |-> df.dtype[c],
        vals |-> [i \in 1..Len(df.rows) |-> df.rows[i][c]]]

\* df[c]: raises KeyError when the column is absent
GetColumn(df, c) ==
  IF c \notin df.cols THEN Raise("KeyError")
  ELSE [err |-> "", dtype |-> df.dtype[c],
        vals |-> [i \in 1..Len(df.rows) |-> df.rows[i][c]]]

\* variant of CellReplace: the character becomes a decimal point
CellReplaceWithDot(cell, old) ==
  IF cell.k = "str" THEN Str(Replace(cell.s, old, <<".">>)) ELSE cell

\* str.replace(old, '') on one cell; a missing value stays missing
CellReplace(cell, old) ==
  IF cell.k = "str" THEN Str(Replace(cell.s, old, <<>>)) ELSE cell

\* .str.replace(old, ''): the .str accessor raises AttributeError on a
\* column that is not an object column
str_replace(ser, old) ==
  IF ser.err # "" THEN ser
  ELSE IF ser.dtype # "object" THEN Raise("AttributeError")
  ELSE [ser EXCEPT !.vals = [i \in 1..Len(ser.vals) |-> CellReplace(ser.vals[i], old)]]

\* float(cell) of a cell that converts
CellFloat(cell) ==
  IF cell.k = "str" THEN Num(ParseFloat(cell.s)) ELSE cell

\* .astype(float): raises ValueError on a text that is no float literal
astype_float(ser) ==
  IF ser.err # "" THEN ser
  ELSE IF \E cell \in {ser.vals[i] : i \in 1..Len(ser.vals)} :
            cell.k = "str" /\ ~IsFloat(cell.s)
  THEN Raise("ValueError")
  ELSE [err |-> "", dtype |-> "float64",
        vals |-> [i \in 1..Len(ser.vals) |-> CellFloat(ser.vals[i])]]

\* variant of CellFill: a missing value is kept
CellFillKeep(cell) == cell

\* .fillna(0) on one cell
CellFill(cell) == IF cell.k = "nan" THEN Num(0) ELSE cell

fillna(ser) ==
  IF ser.err # "" THEN ser
  ELSE [ser EXCEPT !.vals = [i \in 1..Len(ser.vals) |-> CellFill(ser.vals[i])]]

(***************************************************************************)
(* The four indicators (lines 44-49)                                       *)
(***************************************************************************)
StripPercent(ser) == str_replace(ser, "%")
StripCommas(ser)  == str_replace(ser, ",")

UrbanPlanning(df) == fillna(astype_float(StripPercent(GetColumn(df, URBAN_COL))))

InfrastructureDevelopment(df) == fillna(astype_float(GetColumn(df, NET_COL)))

EnvironmentalConservation(df) == fillna(astype_float(GetColumn(df, FOREST_COL)))

SocioEconomicsAnalysis(df) == fillna(astype_float(StripCommas(GetColumn(df, DENSITY_COL))))

(***************************************************************************)
(* The four rule chains (lines 52-105); thresholds in tenths               *)
(***************************************************************************)
\* lines 53-62
UrbanPlanningRules ==
  <<
    [op |-> ">", t |-> 600,
     label |-> "Focus on sustainable urbanization in high urban density areas"],
    [op |-> ">", t |-> 541,
     label |-> "Enhance infrastructure resilience and promote mixed-use development"],
    [op |-> ">", t |-> 482,
     label |-> "Encourage eco-friendly transportation and smart city initiatives"],
    [op |-> ">", t |-> 423,
     label |-> "Strengthen public transport systems and pedestrian-friendly spaces"],
    [op |-> ">", t |-> 364,
     label |-> "Promote green building practices and energy-efficient policies"],
    [op |-> ">", t |-> 305,
     label |-> "Support community-driven urban projects and housing affordability"],
    [op |-> ">", t |-> 246,
     label |-> "Develop sustainable industrial zones and manage urban sprawl"],
    [op |-> ">", t |-> 187,
     label |-> "Improve basic infrastructure and access to essential services"],
    [op |-> ">", t |-> 110,
     label |-> "Encourage planned urban growth and reduce informal settlements"],
    [op |-> "else", t |-> 0,
     label |-> "Promote urban development in underdeveloped areas"]
  >>

\* lines 67-72
InfrastructureRules ==
  <<
    [op |-> ">", t |-> 100000,
     label |-> "Expand infrastructure projects significantly in states with highly extensive agricultural land"],
    [op |-> ">", t |-> 80000,
     label |-> "Encourage large-scale infrastructure expansion to support agriculture and rural growth"],
    [op |-> ">", t |-> 60000,
     label |-> "Promote balanced infrastructure development to complement agricultural production"],
    [op |-> ">", t |-> 40000,
     label |-> "Focus on enhancing infrastructure to support medium-scale agricultural activities"],
    [op |-> ">", t |-> 20000,
     label |-> "Optimize infrastructure for better utilization in moderately agricultural areas"],
    [op |-> "else", t |-> 0,
     label |-> "Prioritize infrastructure development in regions with limited agricultural land"]
  >>

\* lines 76-86
ConservationRules ==
  <<
    [op |-> ">", t |-> 50000,
     label |-> "Implement extensive reforestation and conservation programs to preserve ecosystems"],
    [op |-> ">", t |-> 45000,
     label |-> "Focus on large-scale afforestation and forest preservation projects"],
    [op |-> ">", t |-> 40000,
     label |-> "Strengthen community-driven conservation efforts and reforestation plans"],
    [op |-> ">", t |-> 35000,
     label |-> "Enhance forest management practices and sustainable land use strategies"],
    [op |-> ">", t |-> 30000,
     label |-> "Increase funding for conservation programs and biodiversity initiatives"],
    [op |-> ">", t |-> 25000,
     label |-> "Promote sustainable forestry and eco-friendly policies in high-impact areas"],
    [op |-> ">", t |-> 20000,
     label |-> "Support moderate-scale afforestation projects and community participation"],
    [op |-> ">", t |-> 15000,
     label |-> "Focus on targeted afforestation efforts in underutilized regions"],
    [op |-> ">", t |-> 10000,
     label |-> "Encourage community involvement and local conservation initiatives"],
    [op |-> ">", t |-> 5000,
     label |-> "Promote small-scale afforestation and awareness programs"],
    [op |-> "else", t |-> 0,
     label |-> "Initiate basic conservation and afforestation efforts in critical regions"]
  >>

\* lines 91-104
SocioEconomicsRules ==
  <<
    [op |-> "<=", t |-> 600,
     label |-> "Focus on rural development and connectivity in sparsely populated areas"],
    [op |-> "<=", t |-> 1200,
     label |-> "Support sparsely populated regions with roadways and basic facilities"],
    [op |-> "<=", t |-> 1800,
     label |-> "Enhance rural infrastructure and agricultural support"],
    [op |-> "<=", t |-> 2400,
     label |-> "Improve access to education and healthcare in moderately populated areas"],
    [op |-> "<=", t |-> 3000,
     label |-> "Invest in medium-density regions with industrial hubs"],
    [op |-> "<=", t |-> 3600,
     label |-> "Promote urbanization in emerging towns and cities"],
    [op |-> "<=", t |-> 4200,
     label |-> "Develop infrastructure and job opportunities in densely populated regions"],
    [op |-> "<=", t |-> 4800,
     label |-> "Implement smart city projects for high-density urban areas"],
    [op |-> "<=", t |-> 5400,
     label |-> "Enhance public transportation and housing in urban centers"],
    [op |-> "<=", t |-> 6000,
     label |-> "Expand utilities and green spaces in highly urbanized areas"],
    [op |-> "<=", t |-> 6600,
     label |-> "Focus on reducing congestion and pollution in urban hotspots"],
    [op |-> "<=", t |-> 7200,
     label |-> "Prioritize high-density urban centers with smart city initiatives"],
    [op |-> "<=", t |-> 7800,
     label |-> "Develop advanced infrastructure for mega-cities and metropolitan regions"],
    [op |-> "else", t |-> 0,
     label |-> "Address overpopulation challenges with sustainable city planning"]
  >>

RulesOf(column) ==
  CASE column = "Urban Planning"             -> UrbanPlanningRules
    [] column = "Infrastructure Development" -> InfrastructureRules
    [] column = "Environmental Conservation" -> ConservationRules
    [] column = "Socio-Economics Analysis"   -> SocioEconomicsRules

\* variant of Matches: the comparisons with the boundary inverted
MatchesInclusive(rule, x) ==
  CASE rule.op = ">"    -> x.k = "num" /\ x.v >= rule.t
    [] rule.op = "<="   -> x.k = "num" /\ x.v < rule.t
    [] rule.op = "else" -> TRUE

\* variant of Matches: a chain without its final else
MatchesNoElse(rule, x) ==
  CASE rule.op = ">"    -> x.k = "num" /\ x.v > rule.t
    [] rule.op = "<="   -> x.k = "num" /\ x.v <= rule.t
    [] rule.op = "else" -> FALSE

\* the condition of one arm of a chain; the last arm is the bare else
\* (x is a cell; every comparison with a missing value is false)
Matches(rule, x) ==
  CASE rule.op = ">"    -> x.k = "num" /\ x.v > rule.t
    [] rule.op = "<="   -> x.k = "num" /\ x.v <= rule.t
    [] rule.op = "else" -> TRUE

\* the value of the conditional expression from arm i on: the label of the
\* first arm whose condition holds ("" stands for no value)
RECURSIVE Chain(_, _, _)
Chain(rules, x, i) ==
  IF i > Len(rules) THEN ""
  ELSE IF Matches(rules[i], x) THEN rules[i].label
  ELSE Chain(rules, x, i + 1)

Classify(rules, x) ==
  CHOOSE label \in {Chain(rs, v, 1) : rs \in {rules}, v \in {x}} : TRUE

RecommendationColumn(column) ==
  CASE column = "Urban Planning"             -> "Urban Planning Recommendation"
    [] column = "Infrastructure Development" -> "Infrastructure Development Recommendation"
    [] column = "Environmental Conservation" -> "Environmental Conservation Recommendation"
    [] column = "Socio-Economics Analysis"   -> "Socio-Economics Analysis Recommendation"

RecommendationColumns == {RecommendationColumn(IndicatorColumns[i]) : i \in 1..4}

(***************************************************************************)
(* process_files (lines 34-107): the table returned, or the exception      *)
(***************************************************************************)
FirstError(errs) ==
  LET bad == {i \in 1..Len(errs) : errs[i] # ""}
  IN  IF bad = {} THEN "" ELSE errs[CHOOSE i \in bad : \A j \in bad : i <= j]

\* lines 44-49, in statement order
Indicators(df) ==
  <<UrbanPlanning(df), InfrastructureDevelopment(df),
    EnvironmentalConservation(df), SocioEconomicsAnalysis(df)>>

\* lines 52-105: the rows of the returned table
Recommend(df, ind) ==
  [r \in 1..Len(df.rows) |->
     [raw |-> df.rows[r],
      ind |-> [c \in {IndicatorColumns[i] : i \in 1..4} |->
                 ind[CHOOSE i \in 1..4 : IndicatorColumns[i] = c].vals[r]],
      rec |-> [rc \in RecommendationColumns |->
                 LET i == CHOOSE i \in 1..4 : RecommendationColumn(IndicatorColumns[i]) = rc
                 IN  Classify(RulesOf(IndicatorColumns[i]), ind[i].vals[r])]]]

\* (each intermediate table is bound once, as the assignments of the source do)
process_files(shp, population, land) ==
  CHOOSE result \in
    {IF m2.err # "" THEN [outcome |-> m2.err, gdf |-> <<>>]
     ELSE CHOOSE res \in
            {IF FirstError([i \in 1..4 |-> ind[i].err]) # ""
             THEN [outcome |-> FirstError([i \in 1..4 |-> ind[i].err]), gdf |-> <<>>]
             ELSE [outcome |-> "ok", gdf |-> Recommend(m2.df, ind)]
               : ind \in {Indicators(m2.df)}} : TRUE
       : m2 \in {IF m1.err # "" THEN m1
                 ELSE merge(m1.df, read_csv(land), "statename", LAND_KEY)
                   : m1 \in {merge(read_file(shp), read_csv(population),
                                   "statename", POP_KEY)}}} : TRUE

(***************************************************************************)
(* create_map (lines 109-125) and the themes of main (lines 138-143)       *)
(***************************************************************************)
maps_info ==
  <<
    [theme  |-> <<"U", "r", "b", "a", "n", " ", "P", "l", "a", "n", "n", "i", "n", "g">>,
     column |-> "Urban Planning Recommendation"],
    [theme  |-> <<"I", "n", "f", "r", "a", "s", "t", "r", "u", "c", "t", "u", "r", "e", " ", "D", "e", "v", "e", "l", "o", "p", "m", "e", "n", "t">>,
     column |-> "Infrastructure Development Recommendation"],
    [theme  |-> <<"E", "n", "v", "i", "r", "o", "n", "m", "e", "n", "t", "a", "l", " ", "C", "o", "n", "s", "e", "r", "v", "a", "t", "i", "o", "n">>,
     column |-> "Environmental Conservation Recommendation"],
    [theme  |-> <<"S", "o", "c", "i", "o", "-", "E", "c", "o", "n", "o", "m", "i", "c", "s", " ", "A", "n", "a", "l", "y", "s", "i", "s">>,
     column |-> "Socio-Economics Analysis Recommendation"]
  >>

Themes == 1..Len(maps_info)

MapSuffix == <<"_", "I", "n", "t", "e", "r", "a", "c", "t", "i", "v", "e", "_", "M", "a", "p", ".", "h", "t", "m", "l">>

\* variant of FilePath: one name for every theme
FilePathFixed(title) == MapSuffix

\* line 123
FilePath(title) == Replace(title, " ", <<"_">>) \o MapSuffix

\* lines 110-121: the layer handed to folium: its name, the tooltip's
\* aliases, and per feature the geometry and the two tooltip fields
Overlay(table, title, recommendation_column) ==
  [name     |-> title,
   aliases  |-> <<"State:", "Recommendation:">>,
   features |-> [r \in 1..Len(table) |->
                   [statename      |-> table[r].raw["statename"].s,
                    geometry       |-> table[r].raw["geometry"].v,
                    recommendation |-> table[r].rec[recommendation_column]]]]

\* line 124: m.save(file_path) replaces the file of that name
Save(fs, path, content) ==
  {f \in fs : f.path # path} \cup {[path |-> path, content |-> content]}

(***************************************************************************)
(* Inputs: the uploaded files                                              *)
(***************************************************************************)
MaxRegions == 2
MaxRows    == 2

Alpha == <<"A", "l", "p", "h", "a">>
Beta  == <<"B", "e", "t", "a">>
Names == {Alpha, Beta}

SeqsUpTo(S, lo, hi) == UNION {[1..n -> S] : n \in lo..hi}

\* a boundary dataset with at least one feature; the geometry of a feature is
\* identified by its position in the file
Shapefiles ==
  {[header |-> {"statename", "geometry"},
    rows   |-> [i \in 1..Len(ns) |-> [statename |-> ns[i], geometry |-> i]]]
     : ns \in SeqsUpTo(Names, 1, MaxRegions)}

PopRow(key, urban, density) ==
  (POP_KEY :> key) @@ (URBAN_COL :> urban) @@ (DENSITY_COL :> density)

LandRow(key, net, forest) ==
  (LAND_KEY :> key) @@ (NET_COL :> net) @@ (FOREST_COL :> forest)

PopHeader  == {POP_KEY, URBAN_COL, DENSITY_COL}
LandHeader == {LAND_KEY, NET_COL, FOREST_COL}

Csv(header, rows) == [header |-> header, rows |-> rows]

\* the fields of a population row: the urban field varies beside a density
\* with a thousands separator, the density field beside a percentage
PopFields ==
  {<<u, <<"1", ",", "2", "3", "4">>>> :
      u \in {<<"6", "5", "%">>, <<>>, <<"-", "5", "%">>, <<"a", "b", "%">>}}
  \cup
  {<<<<"6", "5", "%">>, d>> :
      d \in {<<"1", "5", "0", ",", "5">>, <<>>, <<"1", "5", "0">>, <<"a", ",", "b">>}}

LandFields ==
  {<<<<"9", "0", "0", "0">>, <<"3", "2", "0", "0">>>>,
   <<<<>>, <<>>>>,
   <<<<"a", "b">>, <<"3", "2", "0", "0">>>>,
   <<<<"9", "0", "0", "0">>, <<"a", "b">>>>,
   <<<<"-", "5">>, <<"3", "2", "0", "0">>>>,
   <<<<"9", ",", "0", "0", "0">>, <<"3", "2", "0", "0">>>>}

PopRows  == {PopRow(n, f[1], f[2]) : n \in Names, f \in PopFields}
LandRows == {LandRow(n, f[1], f[2]) : n \in Names, f \in LandFields}

WellFormedPop ==
  Csv(PopHeader, <<PopRow(Alpha, <<"6", "5", "%">>, <<"1", ",", "2", "3", "4">>),
                   PopRow(Beta, <<"4", "5", ".", "2", "%">>, <<"1", ",", "2", "3", "4", ",", "5", "6", "7">>)>>)

WellFormedLand ==
  Csv(LandHeader, <<LandRow(Alpha, <<"9", "0", "0", "0">>, <<"3", "2", "0", "0">>),
                    LandRow(Beta, <<"1", "5", "0", "0", ".", "5">>, <<>>)>>)

\* the header (and every row) of a file without one column
Without(file, c) ==
  [header |-> file.header \ {c},
   rows   |-> [i \in 1..Len(file.rows) |->
                 [k \in file.header \ {c} |-> file.rows[i][k]]]]

\* decimal text of a number of tenths
DigitChar(d) == CHOOSE c \in Digits : DigitVal(c) = d

RECURSIVE DigitsText(_)
DigitsText(n) ==
  IF n < 10 THEN <<DigitChar(n)>> ELSE DigitsText(n \div 10) \o <<DigitChar(n % 10)>>

DecimalText(n) == DigitsText(n \div 10) \o <<".">> \o <<DigitChar(n % 10)>>

\* the values at, one tenth below and one tenth above every threshold
Around(rules) ==
  UNION {{rules[i].t - 1, rules[i].t, rules[i].t + 1} :
           i \in {j \in 1..Len(rules) : rules[j].op # "else"}}

(***************************************************************************)
(* State machine                                                           *)
(***************************************************************************)
Start(shp, pop, land) ==
  /\ pc = "process"
  /\ shapefile = shp
  /\ population_file = pop
  /\ land_file = land
  /\ outcome = "none"
  /\ gdf = <<>>
  /\ done = {}
  /\ files = {}

\* the population table varies
InitPopulation ==
  \E shp \in Shapefiles, rows \in SeqsUpTo(PopRows, 0, MaxRows) :
     Start(shp, Csv(PopHeader, rows), WellFormedLand)

\* the land table varies
InitLand ==
  \E shp \in Shapefiles, rows \in SeqsUpTo(LandRows, 0, MaxRows) :
     Start(shp, WellFormedPop, Csv(LandHeader, rows))

\* one column is absent from one of the three files
InitColumns ==
  \E shp \in Shapefiles :
     \/ Start(Without(shp, "statename"), WellFormedPop, WellFormedLand)
     \/ \E c \in PopHeader : Start(shp, Without(WellFormedPop, c), WellFormedLand)
     \/ \E c \in LandHeader : Start(shp, WellFormedPop, Without(WellFormedLand, c))

\* one region whose source fields sit at and around the thresholds
InitBoundary ==
  LET shp == CHOOSE s \in Shapefiles : Len(s.rows) = 1 /\ s.rows[1].statename = Alpha
      other == PopRow(Beta, <<"4", "5", ".", "2", "%">>, <<"1", ",", "2", "3", "4", ",", "5", "6", "7">>)
  IN  \/ \E x \in Around(UrbanPlanningRules) :
            Start(shp, Csv(PopHeader, <<PopRow(Alpha, DecimalText(x) \o <<"%">>, <<>>), other>>),
                  WellFormedLand)
      \/ \E x \in Around(SocioEconomicsRules) :
            Start(shp, Csv(PopHeader, <<PopRow(Alpha, <<>>, DecimalText(x)), other>>),
                  WellFormedLand)
      \/ \E x \in Around(InfrastructureRules) :
            Start(shp, WellFormedPop, Csv(LandHeader, <<LandRow(Alpha, DecimalText(x), <<>>)>>))
      \/ \E x \in Around(ConservationRules) :
            Start(shp, WellFormedPop, Csv(LandHeader, <<LandRow(Alpha, <<>>, DecimalText(x))>>))

Init == InitPopulation \/ InitLand \/ InitColumns \/ InitBoundary

\* main, line 136: the whole of process_files; an exception ends the run
ProcessFiles ==
  /\ pc = "process"
  /\ \E r \in {process_files(shapefile, population_file, land_file)} :
        /\ outcome' = r.outcome
        /\ gdf' = r.gdf
        /\ pc' = IF r.outcome = "ok" THEN "render" ELSE "failed"
  /\ UNCHANGED <<shapefile, population_file, land_file, done, files>>

\* main, line 147: one call of create_map for theme k
CreateMap(k) ==
  /\ pc = "render"
  /\ k \in Themes \ done
  /\ files' = Save(files, FilePath(maps_info[k].theme),
                   Overlay(gdf, maps_info[k].theme, maps_info[k].column))
  /\ done' = done \cup {k}
  /\ pc' = IF done' = Themes THEN "done" ELSE "render"
  /\ UNCHANGED <<shapefile, population_file, land_file, outcome, gdf>>

\* main, lines 145-147: the themes in the order of maps_info
MainLoop == \E k \in Themes : done = 1..(k - 1) /\ CreateMap(k)

Next == ProcessFiles \/ MainLoop

Spec == Init /\ [][Next]_vars

\* the four calls of create_map in any order
RenderAny == \E k \in Themes : CreateMap(k)

NextRender == ProcessFiles \/ RenderAny

SpecRender == InitLand /\ [][NextRender]_vars

(***************************************************************************)
(* Vocabulary of the properties                                            *)
(***************************************************************************)
Processed == pc # "process"

\* process_files has just returned its table (main has rendered no map yet;
\* create_map never changes the table, see C10)
Returned == outcome = "ok" /\ done = {}

AllColumns ==
  /\ "statename" \in shapefile.header
  /\ PopHeader \subseteq population_file.header
  /\ LandHeader \subseteq land_file.header

Regions == 1..Len(shapefile.rows)

\* the rows of an attribute file whose key is the name of region i
MatchesOf(file, key, i) ==
  {j \in 1..Len(file.rows) : file.rows[j][key] = shapefile.rows[i].statename}

First(S) == CHOOSE j \in S : \A k \in S : j <= k

\* the rows of the returned table that carry the geometry of region i
RowsOf(i) == {r \in 1..Len(gdf) : gdf[r].raw["geometry"].v = i}

LastLabel(rules) == rules[Len(rules)].label

\* the text of a source field once the character the code removes is removed
Normalized(c, text) ==
  CASE c = URBAN_COL   -> Replace(text, "%", <<>>)
    [] c = DENSITY_COL -> Replace(text, ",", <<>>)
    [] OTHER           -> text

\* region i is joined to a row whose field c is not a number after normalization
BadCell(file, key, c, i) ==
  /\ {key, c} \subseteq file.header
  /\ \E j \in MatchesOf(file, key, i) :
        file.rows[j][c] # <<>> /\ ~IsFloat(Normalized(c, file.rows[j][c]))

\* a file with every field that is not a number after normalization emptied
Blanked(file, cols) ==
  [header |-> file.header,
   rows   |-> [j \in 1..Len(file.rows) |->
                 [c \in file.header |->
                    IF c \in cols /\ file.rows[j][c] # <<>>
                       /\ ~IsFloat(Normalized(c, file.rows[j][c]))
                    THEN <<>> ELSE file.rows[j][c]]]]

(***************************************************************************)
(* C1: the returned table has exactly one row per input region, whatever   *)
(* the number of matching attribute rows, and a region matched by several  *)
(* rows carries the attributes of the first of them.                       *)
(* (As stated; the merge of the code returns one row per matching row.)    *)
(***************************************************************************)
C1_OneRowPerRegion ==
  outcome = "ok" =>
    /\ Len(gdf) = Len(shapefile.rows)
    /\ \A i \in Regions :
         /\ Cardinality(RowsOf(i)) = 1
         /\ \A r \in RowsOf(i) :
              LET m == MatchesOf(population_file, POP_KEY, i)
              IN  m # {} =>
                    gdf[r].raw[URBAN_COL] =
                      read_csv(population_file).rows[First(m)][URBAN_COL]

(***************************************************************************)
(* C2: a source field that is still non-numeric after normalization does   *)
(* not make process_files raise: the batch completes, that region's        *)
(* indicator is 0.0 and every other value is as if the field were missing. *)
(* (As stated; the premise keeps the inputs whose only defect is such a    *)
(* field: with those fields emptied the run completes.)                    *)
(***************************************************************************)
C2_BadFieldDoesNotRaise ==
  (/\ Processed
   /\ AllColumns
   /\ \E i \in Regions :
         \/ \E c \in {URBAN_COL, DENSITY_COL} : BadCell(population_file, POP_KEY, c, i)
         \/ \E c \in {NET_COL, FOREST_COL} : BadCell(land_file, LAND_KEY, c, i))
  => \A blank \in {process_files(shapefile,
                                 Blanked(population_file, {URBAN_COL, DENSITY_COL}),
                                 Blanked(land_file, {NET_COL, FOREST_COL}))} :
        blank.outcome = "ok" =>
          /\ outcome = "ok"
          /\ Len(gdf) = Len(blank.gdf)
          /\ \A r \in 1..Len(gdf) :
               gdf[r].ind = blank.gdf[r].ind /\ gdf[r].rec = blank.gdf[r].rec

(***************************************************************************)
(* C3: when a required column (a join key, 'Urban pop. In %', 'Net area    *)
(* sown', 'Forests', 'Density') is absent, process_files fails the whole   *)
(* invocation: it ends in an error, returns no table, and no map is made.  *)
(***************************************************************************)
C3_MissingColumnFails ==
  (Processed /\ ~AllColumns) =>
    /\ outcome \notin {"ok", "none"}
    /\ pc = "failed"
    /\ gdf = <<>>
    /\ files = {}

C3_Witness ==
  /\ pc = "failed"
  /\ NET_COL \notin land_file.header
  /\ PopHeader \subseteq population_file.header

(***************************************************************************)
(* C4: boundaries are classified exactly.  In the three descending chains  *)
(* a value equal to a threshold t gets the label of the next arm, and a    *)
(* value above t and not above the previous threshold gets the label of    *)
(* t's arm; in the ascending Socio-Economics chain a value equal to t gets *)
(* the label of t's arm and a value above t, up to the next threshold,     *)
(* gets the next arm's.  Urban Planning 60.0 gets the second label and     *)
(* 60.1 the first; density 60.0 gets the first label and 60.1 the second.  *)
(***************************************************************************)
BoundaryExact(rules, x, label) ==
  \A a \in 1..(Len(rules) - 1) :
     /\ (rules[a].op = ">" /\ x = rules[a].t) => label = rules[a + 1].label
     /\ (rules[a].op = ">" /\ x > rules[a].t /\ (a = 1 \/ x <= rules[a - 1].t))
          => label = rules[a].label
     /\ (rules[a].op = "<=" /\ x = rules[a].t) => label = rules[a].label
     /\ (rules[a].op = "<=" /\ x > rules[a].t
           /\ (a + 1 = Len(rules) \/ x <= rules[a + 1].t))
          => label = rules[a + 1].label

C4_BoundaryExactness ==
  Returned =>
    \A r \in 1..Len(gdf) :
       /\ \A i \in 1..4 :
            LET c == IndicatorColumns[i]
            IN  gdf[r].ind[c].k = "num" =>
                  BoundaryExact(RulesOf(c), gdf[r].ind[c].v,
                                gdf[r].rec[RecommendationColumn(c)])
       /\ gdf[r].ind["Urban Planning"] = Num(600) =>
            gdf[r].rec["Urban Planning Recommendation"] =
              "Enhance infrastructure resilience and promote mixed-use development"
       /\ gdf[r].ind["Urban Planning"] = Num(601) =>
            gdf[r].rec["Urban Planning Recommendation"] =
              "Focus on sustainable urbanization in high urban density areas"
       /\ gdf[r].ind["Socio-Economics Analysis"] = Num(600) =>
            gdf[r].rec["Socio-Economics Analysis Recommendation"] =
              "Focus on rural development and connectivity in sparsely populated areas"
       /\ gdf[r].ind["Socio-Economics Analysis"] = Num(601) =>
            gdf[r].rec["Socio-Economics Analysis Recommendation"] =
              "Support sparsely populated regions with roadways and basic facilities"

C4_Witness ==
  /\ outcome = "ok"
  /\ \E r \in 1..Len(gdf) :
       /\ gdf[r].ind["Urban Planning"] = Num(600)
       /\ gdf[r].rec["Urban Planning Recommendation"] = UrbanPlanningRules[2].label

(***************************************************************************)
(* C5: classification is total and single-valued: for every indicator      *)
(* value the deriver produces, evaluating the arms in their order selects  *)
(* exactly one arm, and every region carries that arm's label (some label, *)
(* and one only: the labels of a chain are pairwise different).            *)
(***************************************************************************)
\* the arms selected by ordered evaluation: the condition holds and no
\* earlier arm's does
Selected(rules, x) ==
  {a \in 1..Len(rules) :
     Matches(rules[a], x) /\ \A b \in 1..(a - 1) : ~Matches(rules[b], x)}

DistinctLabels ==
  \A i \in 1..4 : \A a, b \in 1..Len(RulesOf(IndicatorColumns[i])) :
     RulesOf(IndicatorColumns[i])[a].label = RulesOf(IndicatorColumns[i])[b].label
       => a = b

C5_TotalSingleValued ==
  Returned =>
    /\ DistinctLabels
    /\ \A r \in 1..Len(gdf) : \A i \in 1..4 :
         \A c \in {IndicatorColumns[i]} :
            \A sel \in {Selected(RulesOf(c), gdf[r].ind[c])} :
               /\ gdf[r].ind[c].k = "num"
               /\ Cardinality(sel) = 1
               /\ gdf[r].rec[RecommendationColumn(c)] # ""
               /\ \A a \in sel :
                    gdf[r].rec[RecommendationColumn(c)] = RulesOf(c)[a].label

C5_Witness ==
  /\ outcome = "ok"
  /\ \E r \in 1..Len(gdf) :
       /\ gdf[r].ind["Infrastructure Development"] = Num(0)
       /\ gdf[r].ind["Environmental Conservation"].v > 30000
       /\ gdf[r].rec["Infrastructure Development Recommendation"]
            = LastLabel(InfrastructureRules)

(***************************************************************************)
(* C6: a region whose name matches no row of an attribute table is not an  *)
(* error.  Every failure of process_files has another cause (an absent     *)
(* column, a numeric column under .str, a non-numeric field of a row that  *)
(* is joined to a region); and in the returned table the region is present *)
(* with 0.0 for each indicator sourced from that table and the label of    *)
(* the band of 0.0: the catch-all of the descending chains, the first arm  *)
(* ('<= 60') of Socio-Economics Analysis.                                  *)
(***************************************************************************)
Unmatched(file, key, i) == MatchesOf(file, key, i) = {}

DefaultsFor(r, cols) ==
  \A c \in cols :
     /\ gdf[r].ind[c] = Num(0)
     /\ gdf[r].rec[RecommendationColumn(c)] =
          (IF c = "Socio-Economics Analysis" THEN SocioEconomicsRules[1].label
           ELSE LastLabel(RulesOf(c)))

FailureCause ==
  \/ outcome = "KeyError" /\ ~AllColumns
  \/ /\ outcome = "AttributeError"
     /\ \E c \in {URBAN_COL, DENSITY_COL} \cap population_file.header :
           ColumnDtype(population_file, c) = "float64"
  \/ /\ outcome = "ValueError"
     /\ \E i \in Regions :
          \/ \E c \in {URBAN_COL, DENSITY_COL} : BadCell(population_file, POP_KEY, c, i)
          \/ \E c \in {NET_COL, FOREST_COL} : BadCell(land_file, LAND_KEY, c, i)

C6_MismatchIsNotAnError ==
  /\ pc = "failed" => FailureCause
  /\ Returned =>
       \A i \in Regions :
          /\ RowsOf(i) # {}
          /\ Unmatched(population_file, POP_KEY, i) =>
               \A r \in RowsOf(i) :
                  DefaultsFor(r, {"Urban Planning", "Socio-Economics Analysis"})
          /\ Unmatched(land_file, LAND_KEY, i) =>
               \A r \in RowsOf(i) :
                  DefaultsFor(r, {"Infrastructure Development",
                                  "Environmental Conservation"})

C6_Witness ==
  /\ outcome = "ok"
  /\ population_file.rows # <<>>
  /\ \E i \in Regions :
       /\ Unmatched(population_file, POP_KEY, i)
       /\ \E r \in RowsOf(i) :
            gdf[r].rec["Urban Planning Recommendation"]
              = "Promote urban development in underdeveloped areas"

(***************************************************************************)
(* C7: in every returned table each of the four indicators is, for every   *)
(* region, a finite non-negative number, never null or NaN, whatever the   *)
(* raw source values were.                                                 *)
(* (As stated; the code keeps the sign of a negative source value.)        *)
(***************************************************************************)
C7_IndicatorsNonNegative ==
  outcome = "ok" =>
    \A r \in 1..Len(gdf) : \A i \in 1..4 :
       /\ gdf[r].ind[IndicatorColumns[i]].k = "num"
       /\ gdf[r].ind[IndicatorColumns[i]].v >= 0

(***************************************************************************)
(* C8: the end-to-end scenario.  Region "Alpha", population row with urban *)
(* percentage "65%" and density "150,5", land row with net sown area       *)
(* "9000" and forest area "3200".                                          *)
(***************************************************************************)
Scenario ==
  /\ Processed
  /\ AllColumns
  /\ Len(shapefile.rows) = 1
  /\ shapefile.rows[1].statename = Alpha
  /\ population_file.rows = <<PopRow(Alpha, <<"6", "5", "%">>, <<"1", "5", "0", ",", "5">>)>>
  /\ \E j \in 1..Len(land_file.rows) :
        land_file.rows[j] = LandRow(Alpha, <<"9", "0", "0", "0">>, <<"3", "2", "0", "0">>)
  /\ Cardinality(MatchesOf(land_file, LAND_KEY, 1)) = 1

ScenarioCommon ==
  /\ outcome = "ok"
  /\ Len(gdf) = 1
  /\ gdf[1].ind["Urban Planning"] = Num(650)
  /\ gdf[1].rec["Urban Planning Recommendation"] =
       "Focus on sustainable urbanization in high urban density areas"
  /\ gdf[1].ind["Infrastructure Development"] = Num(90000)
  /\ gdf[1].rec["Infrastructure Development Recommendation"] =
       "Encourage large-scale infrastructure expansion to support agriculture and rural growth"
  /\ gdf[1].ind["Environmental Conservation"] = Num(32000)
  /\ gdf[1].rec["Environmental Conservation Recommendation"] =
       "Increase funding for conservation programs and biodiversity initiatives"

\* C8 as stated: the density "150,5" is malformed and yields 0.0 and the
\* first ascending ('<= 60') label
C8_AsStated ==
  Scenario =>
    /\ ScenarioCommon
    /\ gdf[1].ind["Socio-Economics Analysis"] = Num(0)
    /\ gdf[1].rec["Socio-Economics Analysis Recommendation"] =
         "Focus on rural development and connectivity in sparsely populated areas"

\* C8 as amended: the scenario yields Urban Planning 65.0, Infrastructure
\* Development 9000.0 and Environmental Conservation 3200.0 with the labels
\* of the '> 60', '> 8000' and '> 3000' arms; the comma of "150,5" is
\* removed, so Socio-Economics Analysis is 1505.0 with the label of the
\* final (above 780) arm
C8_Scenario ==
  Scenario =>
    /\ ScenarioCommon
    /\ gdf[1].ind["Socio-Economics Analysis"] = Num(15050)
    /\ gdf[1].rec["Socio-Economics Analysis Recommendation"] =
         "Address overpopulation challenges with sustainable city planning"

C8_Witness == Scenario /\ outcome = "ok" /\ pc = "done"

(***************************************************************************)
(* C9: normalization of well-formed inputs.  An urban field "<number>%"    *)
(* yields that number ("45.2%" yields 45.2), a density field with ','      *)
(* separators yields the number without them ("1,234,567" yields           *)
(* 1234567.0), a net-sown-area or forest-area field is parsed as it is,    *)
(* and an empty value in any of the four fields yields 0.0.                *)
(* (As stated, for inputs whose fields are all of these forms.)            *)
(***************************************************************************)
WellFormedField(c, text) ==
  \/ text = <<>>
  \/ /\ c = URBAN_COL
     /\ text[Len(text)] = "%"
     /\ IsFloat(SubSeq(text, 1, Len(text) - 1))
  \/ /\ c = DENSITY_COL
     /\ \E k \in 1..Len(text) : text[k] = ","
     /\ IsFloat(Replace(text, ",", <<>>))
  \/ c \in {NET_COL, FOREST_COL} /\ IsFloat(text)

WellFormedInput ==
  /\ AllColumns
  /\ \A j \in 1..Len(population_file.rows) : \A c \in {URBAN_COL, DENSITY_COL} :
        WellFormedField(c, population_file.rows[j][c])
  /\ \A j \in 1..Len(land_file.rows) : \A c \in {NET_COL, FOREST_COL} :
        WellFormedField(c, land_file.rows[j][c])

\* the number a well-formed field stands for, in tenths
FieldValue(c, text) ==
  IF text = <<>> THEN 0
  ELSE IF c = URBAN_COL THEN ParseFloat(SubSeq(text, 1, Len(text) - 1))
  ELSE IF c = DENSITY_COL THEN ParseFloat(SelectSeq(text, LAMBDA ch : ch # ","))
  ELSE ParseFloat(text)

Yields(r, column, c, file, matches) ==
  IF matches = {} THEN gdf[r].ind[column] = Num(0)
  ELSE \E j \in matches : gdf[r].ind[column] = Num(FieldValue(c, file.rows[j][c]))

C9_WellFormedNormalization ==
  (Processed /\ WellFormedInput) =>
    /\ outcome = "ok"
    /\ \A i \in Regions : \A r \in RowsOf(i) :
         LET pm == MatchesOf(population_file, POP_KEY, i)
             lm == MatchesOf(land_file, LAND_KEY, i)
         IN  /\ Yields(r, "Urban Planning", URBAN_COL, population_file, pm)
             /\ Yields(r, "Socio-Economics Analysis", DENSITY_COL, population_file, pm)
             /\ Yields(r, "Infrastructure Development", NET_COL, land_file, lm)
             /\ Yields(r, "Environmental Conservation", FOREST_COL, land_file, lm)
             /\ gdf[r].raw[URBAN_COL] = Str(<<"4", "5", ".", "2", "%">>)
                  => gdf[r].ind["Urban Planning"] = Num(452)
             /\ gdf[r].raw[DENSITY_COL] = Str(<<"1", ",", "2", "3", "4", ",", "5", "6", "7">>)
                  => gdf[r].ind["Socio-Economics Analysis"] = Num(12345670)

(***************************************************************************)
(* C10: rendering the four themes is order-independent and does not change *)
(* the joined table.  create_map leaves the table as it is; whatever the   *)
(* order of the calls, the files written are, for each theme rendered so   *)
(* far, one file named after the theme (spaces replaced by '_', then       *)
(* '_Interactive_Map.html') that holds the theme's overlay (region name,   *)
(* geometry, that theme's recommendation); the four names are different.   *)
(***************************************************************************)
MapFileNames ==
  <<<<"U", "r", "b", "a", "n", "_", "P", "l", "a", "n", "n", "i", "n", "g", "_", "I", "n", "t", "e", "r", "a", "c", "t", "i", "v", "e", "_", "M", "a", "p", ".", "h", "t", "m", "l">>,
    <<"I", "n", "f", "r", "a", "s", "t", "r", "u", "c", "t", "u", "r", "e", "_", "D", "e", "v", "e", "l", "o", "p", "m", "e", "n", "t", "_", "I", "n", "t", "e", "r", "a", "c", "t", "i", "v", "e", "_", "M", "a", "p", ".", "h", "t", "m", "l">>,
    <<"E", "n", "v", "i", "r", "o", "n", "m", "e", "n", "t", "a", "l", "_", "C", "o", "n", "s", "e", "r", "v", "a", "t", "i", "o", "n", "_", "I", "n", "t", "e", "r", "a", "c", "t", "i", "v", "e", "_", "M", "a", "p", ".", "h", "t", "m", "l">>,
    <<"S", "o", "c", "i", "o", "-", "E", "c", "o", "n", "o", "m", "i", "c", "s", "_", "A", "n", "a", "l", "y", "s", "i", "s", "_", "I", "n", "t", "e", "r", "a", "c", "t", "i", "v", "e", "_", "M", "a", "p", ".", "h", "t", "m", "l">>>>

IsOverlayOf(content, k) ==
  /\ content.name = maps_info[k].theme
  /\ Len(content.features) = Len(gdf)
  /\ \A r \in 1..Len(gdf) :
       /\ content.features[r].statename = gdf[r].raw["statename"].s
       /\ content.features[r].geometry = gdf[r].raw["geometry"].v
       /\ content.features[r].recommendation =
            gdf[r].rec[RecommendationColumn(IndicatorColumns[k])]

FilesAreThoseOf(themes) ==
  /\ {f.path : f \in files} = {MapFileNames[k] : k \in themes}
  /\ Cardinality(files) = Cardinality(themes)
  /\ \A k \in themes : \A f \in files :
        f.path = MapFileNames[k] => IsOverlayOf(f.content, k)

C10_RenderOrderIndependent ==
  /\ [](pc \in {"render", "done"} => FilesAreThoseOf(done))
  /\ [](pc = "done" => done = Themes)
  /\ [][pc = "render" => gdf' = gdf /\ outcome' = outcome]_vars

C10_Witness ==
  /\ pc = "render"
  /\ done = {2, 4}
  /\ Len(gdf) >= 2
  /\ Cardinality(files) = 2

====
